---- MODULE Spec2Model ----
(***************************************************************************)
(* Model of src/main.py: the quantum random number generator dashboard.    *)
(*                                                                         *)
(*   - generate_random_numbers : oracle call + expansion of the frequency  *)
(*     map into a flat list of decimal values                              *)
(*   - calculate_statistics / chi_square_test : derived reports            *)
(*   - the Streamlit script: sliders, Generate / Reset buttons, the        *)
(*     session state and the results tab, one action per script run        *)
(*   - the CSV export of the results tab                                   *)
(*                                                                         *)
(* Python strings are sequences of one-character strings.  numpy floats    *)
(* are exact rationals plus nan / inf (no rounding is modelled).           *)
(* A Python call is a record: ok = TRUE with its value, or ok = FALSE with *)
(* the name of the exception that left it.                                 *)
(***************************************************************************)
EXTENDS Integers, Sequences, FiniteSets, TLC

VARIABLES
    num_qubits,     \* the qubit slider of the current script run (line 164)
    num_samples,    \* the sample size slider (line 175)
    session_state,  \* st.session_state: a function from the keys present
    page,           \* what the last script run rendered
    counts,         \* a frequency map handed to the expansion loop
    data,           \* a sample list handed to the statistics functions
    ret             \* the call under observation: the function called on its
                    \* own, or the backend call of a script run that raised

vars == <<num_qubits, num_samples, session_state, page, counts, data, ret>>

----------------------------------------------------------------------------
(* Bounds of the model *)

MaxBits == 2        \* function-level checks: bit widths 1..MaxBits
MaxEntries == 2     \* entries of an enumerated frequency map
MaxCount == 2       \* largest count of an enumerated entry
MaxLen == 4         \* longest enumerated sample list
MaxQubits == 2      \* dashboard: slider options 1..MaxQubits (scaled 2..8)
MaxSamples == 2     \* dashboard: sample sizes 1..MaxSamples (scaled 500..5000)
MaxCsvLen == 11     \* longest list exported to CSV (reaches index 10)

(* Program constants *)

MaxQubitOption == 8   \* last option of the qubit slider

----------------------------------------------------------------------------
(* Python / numpy primitives *)

Pow2(k) == 2 ^ k

Abs(x) == IF x < 0 THEN -x ELSE x

RECURSIVE Gcd(_, _)
Gcd(a, b) == IF b = 0 THEN a ELSE Gcd(b, a % b)

(* A call that returned v, or was left by exception e.  trace lists, in   *)
(* order, what the call did before it ended (library calls, warnings).    *)
Return(v) == [ok |-> TRUE, value |-> v, error |-> "none", trace |-> <<>>]
Raise(e) == [ok |-> FALSE, value |-> <<>>, error |-> e, trace |-> <<>>]
Traced(call, t) == [call EXCEPT !.trace = t]

(* variant: int(binary_string) without the base, the digits read in base 10 *)
DigitBase10(s) ==
    IF s = <<>> \/ \E i \in 1..Len(s) : s[i] \notin {"0", "1", "2"}
    THEN Raise("ValueError")
    ELSE LET RECURSIVE Acc(_, _)
             Acc(i, v) == IF i > Len(s) THEN v
                          ELSE Acc(i + 1, 10 * v + (CASE s[i] = "0" -> 0
                                                      [] s[i] = "1" -> 1
                                                      [] OTHER -> 2))
         IN Return(Acc(1, 0))

(* int(binary_string, 2): the empty string and any character other than   *)
(* 0 and 1 raise ValueError; otherwise the digits are folded left to      *)
(* right.  The length of the string is not looked at.                     *)
int_base2(s) ==
    IF s = <<>> \/ \E i \in 1..Len(s) : s[i] \notin {"0", "1"}
    THEN Raise("ValueError")
    ELSE LET RECURSIVE Acc(_, _)
             Acc(i, v) == IF i > Len(s) THEN v
                          ELSE Acc(i + 1, 2 * v + (IF s[i] = "1" THEN 1 ELSE 0))
         IN Return(Acc(1, 0))

(* [value] * count: a non-positive count gives the empty list *)
Repeat(value, count) == [i \in 1..(IF count > 0 THEN count ELSE 0) |-> value]

(* variant: the value appended once, whatever the count *)
RepeatOnce(value, count) == <<value>>

list_times(value, count) == Repeat(value, count)

----------------------------------------------------------------------------
(* generate_random_numbers, lines 47-53: the expansion loop over           *)
(* counts.items().  A dict is a sequence of <<key, count>> entries with    *)
(* distinct keys, in insertion order.                                      *)

RECURSIVE ExpandFrom(_, _, _)
ExpandFrom(cs, i, random_numbers) ==
    IF i > Len(cs) THEN Return(random_numbers)
    ELSE LET decimal_value == int_base2(cs[i][1])
         IN IF ~decimal_value.ok THEN Raise(decimal_value.error)
            ELSE ExpandFrom(cs, i + 1,
                     random_numbers \o list_times(decimal_value.value, cs[i][2]))

expand(cs) == ExpandFrom(cs, 1, <<>>)

----------------------------------------------------------------------------
(* numpy floats: exact rationals in lowest terms, nan and +-inf *)

Num(a, b) ==
    LET g == Gcd(Abs(a), Abs(b))
        sgn == IF b < 0 THEN -1 ELSE 1
    IN [kind |-> "num", num |-> sgn * (a \div g), den |-> sgn * (b \div g)]

Int2F(a) == [kind |-> "num", num |-> a, den |-> 1]
NaN == [kind |-> "nan", num |-> 0, den |-> 0]
Inf(sgn) == [kind |-> "inf", num |-> sgn, den |-> 0]
Sign(a) == IF a < 0 THEN -1 ELSE IF a > 0 THEN 1 ELSE 0

FAdd(x, y) ==
    CASE x.kind = "nan" \/ y.kind = "nan" -> NaN
      [] x.kind = "inf" /\ y.kind = "inf" ->
            IF x.num = y.num THEN x ELSE NaN
      [] x.kind = "inf" -> x
      [] y.kind = "inf" -> y
      [] OTHER -> Num(x.num * y.den + y.num * x.den, x.den * y.den)

FNeg(x) == IF x.kind = "nan" THEN NaN ELSE [x EXCEPT !.num = -x.num]

FSub(x, y) == FAdd(x, FNeg(y))

FMul(x, y) ==
    CASE x.kind = "nan" \/ y.kind = "nan" -> NaN
      [] x.kind = "inf" \/ y.kind = "inf" ->
            IF x.num = 0 \/ y.num = 0 THEN NaN
            ELSE Inf(Sign(x.num) * Sign(y.num))
      [] OTHER -> Num(x.num * y.num, x.den * y.den)

(* numpy true division: x / 0 is nan for x = 0 and +-inf otherwise, with  *)
(* a RuntimeWarning and no exception                                      *)
FDiv(x, y) ==
    CASE x.kind = "nan" \/ y.kind = "nan" -> NaN
      [] x.kind = "inf" /\ y.kind = "inf" -> NaN
      [] x.kind = "inf" -> Inf(x.num * (IF y.num < 0 THEN -1 ELSE 1))
      [] y.kind = "inf" -> Int2F(0)
      [] y.num = 0 -> IF x.num = 0 THEN NaN ELSE Inf(Sign(x.num))
      [] OTHER -> Num(x.num * y.den, x.den * y.num)

IsZeroF(x) == x.kind = "num" /\ x.num = 0

RECURSIVE SumInts(_, _)
SumInts(xs, i) == IF i > Len(xs) THEN 0 ELSE xs[i] + SumInts(xs, i + 1)

RECURSIVE MinFrom(_, _, _)
MinFrom(xs, i, m) ==
    IF i > Len(xs) THEN m
    ELSE MinFrom(xs, i + 1, IF xs[i] < m THEN xs[i] ELSE m)

RECURSIVE MaxFrom(_, _, _)
MaxFrom(xs, i, m) ==
    IF i > Len(xs) THEN m
    ELSE MaxFrom(xs, i + 1, IF xs[i] > m THEN xs[i] ELSE m)

(* np.mean: the mean of an empty list is nan, with a RuntimeWarning *)
np_mean(xs) == FDiv(Int2F(SumInts(xs, 1)), Int2F(Len(xs)))

(* np.std: the population standard deviation, kept as the variance it is  *)
(* the square root of                                                     *)
RECURSIVE SquaresFrom(_, _, _, _)
SquaresFrom(xs, m, i, acc) ==
    IF i > Len(xs) THEN acc
    ELSE LET d == FSub(Int2F(xs[i]), m)
         IN SquaresFrom(xs, m, i + 1, FAdd(acc, FMul(d, d)))

np_std(xs) ==
    LET m == np_mean(xs)
    IN [kind |-> "sqrt", of |-> FDiv(SquaresFrom(xs, m, 1, Int2F(0)), Int2F(Len(xs)))]

(* np.min / np.max: a zero-size array has no minimum: ValueError *)
np_min(xs) == IF xs = <<>> THEN Raise("ValueError") ELSE Return(MinFrom(xs, 1, xs[1]))
np_max(xs) == IF xs = <<>> THEN Raise("ValueError") ELSE Return(MaxFrom(xs, 1, xs[1]))

(* np.bincount(x, minlength): ValueError on a negative element, else the  *)
(* counts of 0..max(max(x), minlength - 1), built one element at a time   *)
RECURSIVE BinCountFrom(_, _, _)
BinCountFrom(xs, i, acc) ==
    IF i > Len(xs) THEN acc
    ELSE BinCountFrom(xs, i + 1, [acc EXCEPT ![xs[i] + 1] = @ + 1])

np_bincount(xs, minlength) ==
    IF \E i \in 1..Len(xs) : xs[i] < 0 THEN Raise("ValueError")
    ELSE LET top == IF xs = <<>> THEN 0 ELSE MaxFrom(xs, 1, xs[1]) + 1
             size == IF top > minlength THEN top ELSE minlength
         IN Return(BinCountFrom(xs, 1, [b \in 1..size |-> 0]))

(* 1 - stats.chi2.cdf(x, df): nan for nan, exactly 1 at x = 0 (cdf(0) = 0),*)
(* otherwise left symbolic                                                *)
one_minus_chi2_cdf(x, df) ==
    CASE x.kind = "nan" -> NaN
      [] IsZeroF(x) -> Int2F(1)
      [] OTHER -> [kind |-> "1-chi2.cdf", of |-> x, df |-> df]

----------------------------------------------------------------------------
(* calculate_statistics, lines 59-73.  The dict literal evaluates its      *)
(* values top to bottom; the first exception leaves the function.          *)

calculate_statistics(xs, nq) ==
    LET max_value == Pow2(nq) - 1
        mn == np_min(xs)
        mx == np_max(xs)
    IN IF ~mn.ok THEN Traced(Raise(mn.error), <<"np.mean", "np.std", "np.min">>)
       ELSE IF ~mx.ok
       THEN Traced(Raise(mx.error), <<"np.mean", "np.std", "np.min", "np.max">>)
       ELSE Traced(Return([mean |-> np_mean(xs),
                           theoretical_mean |-> FDiv(Int2F(max_value), Int2F(2)),
                           std_dev |-> np_std(xs),
                           min |-> mn.value,
                           max |-> mx.value,
                           unique_values |-> Cardinality({xs[i] : i \in 1..Len(xs)}),
                           total_samples |-> Len(xs)]),
                   <<"np.mean", "np.std", "np.min", "np.max", "set", "len">>)

(* chi_square_test, lines 76-93.  observed_freq - expected_freq_array      *)
(* needs equal shapes (neither has length 1, as max_value >= 2): an        *)
(* element >= max_value makes np.bincount return a longer array and the    *)
(* subtraction raise ValueError.  The trace holds one "divide by zero"     *)
(* per term whose divisor expected_freq is 0.                              *)

(* variant: len(data) // max_value, the expected frequency rounded down *)
expected_freq_floor(xs, max_value) == Int2F(Len(xs) \div max_value)

expected_freq_of(xs, max_value) == FDiv(Int2F(Len(xs)), Int2F(max_value))

(* np.sum((observed_freq - expected_freq_array)**2 / expected_freq_array) *)
RECURSIVE SumTerms(_, _, _, _)
SumTerms(observed, expected, i, acc) ==
    IF i > Len(observed) THEN acc
    ELSE LET d == FSub(Int2F(observed[i]), expected)
         IN SumTerms(observed, expected, i + 1, FAdd(acc, FDiv(FMul(d, d), expected)))

chi_square_test(xs, nq) ==
    LET max_value == Pow2(nq)
        expected_freq == expected_freq_of(xs, max_value)
        observed_freq == np_bincount(xs, max_value)
    IN IF ~observed_freq.ok THEN Raise(observed_freq.error)
       ELSE IF Len(observed_freq.value) # max_value THEN Raise("ValueError")
       ELSE LET chi_square_stat ==
                    SumTerms(observed_freq.value, expected_freq, 1, Int2F(0))
                degrees_of_freedom == max_value - 1
                p_value == one_minus_chi2_cdf(chi_square_stat, degrees_of_freedom)
            IN Traced(Return(<<chi_square_stat, p_value>>),
                      [i \in 1..(IF IsZeroF(expected_freq) THEN max_value ELSE 0)
                          |-> "divide by zero"])

----------------------------------------------------------------------------
(* generate_random_numbers, lines 33-53.  backend is what the simulator    *)
(* call of lines 38-45 came to: the counts of get_counts(), or the         *)
(* exception that left it.  Nothing in the function catches it.            *)

(* variant: the backend's exception caught and an empty list returned *)
generate_random_numbers_masked(nq, ns, backend) ==
    IF ~backend.ok THEN Return(<<>>) ELSE expand(backend.value)

generate_random_numbers(nq, ns, backend) ==
    IF ~backend.ok THEN Raise(backend.error) ELSE expand(backend.value)

----------------------------------------------------------------------------
(* The CSV export, line 398 *)

DigitChar(d) ==
    CASE d = 0 -> "0" [] d = 1 -> "1" [] d = 2 -> "2" [] d = 3 -> "3"
      [] d = 4 -> "4" [] d = 5 -> "5" [] d = 6 -> "6" [] d = 7 -> "7"
      [] d = 8 -> "8" [] d = 9 -> "9"

(* str(k) of an int *)
RECURSIVE str_nat(_)
str_nat(k) == IF k < 10 THEN <<DigitChar(k)>>
              ELSE str_nat(k \div 10) \o <<DigitChar(k % 10)>>

str_int(k) == IF k < 0 THEN <<"-">> \o str_nat(-k) ELSE str_nat(k)

(* sep.join(parts) *)
RECURSIVE join(_, _)
join(sep, parts) ==
    IF parts = <<>> THEN <<>>
    ELSE IF Len(parts) = 1 THEN parts[1]
    ELSE parts[1] \o sep \o join(sep, Tail(parts))

CsvHeader == <<"i", "n", "d", "e", "x", ",", "v", "a", "l", "u", "e">>

(* enumerate(random_numbers): the pairs (0, x0), (1, x1), ... *)
(* variant: enumerate(random_numbers, 1) *)
enumerate_from_one(xs) == [i \in 1..Len(xs) |-> <<i, xs[i]>>]

enumerate(xs) == [i \in 1..Len(xs) |-> <<i - 1, xs[i]>>]

csv_data(random_numbers) ==
    LET pairs == enumerate(random_numbers)
        rows == [i \in 1..Len(pairs) |->
                    str_int(pairs[i][1]) \o <<",">> \o str_int(pairs[i][2])]
    IN CsvHeader \o <<"\n">> \o join(<<"\n">>, rows)

----------------------------------------------------------------------------
(* st.session_state: a function whose domain is the set of keys present *)

NoSession == [k \in {} |-> 0]

Put(ss, key, v) == [k \in DOMAIN ss \cup {key} |-> IF k = key THEN v ELSE ss[k]]

Del(ss, key) == [k \in DOMAIN ss \ {key} |-> ss[k]]

(* The Reset handler, lines 191-193: every key present is deleted *)
RECURSIVE DelAll(_, _)
DelAll(ss, keys) ==
    IF keys = {} THEN ss
    ELSE LET key == CHOOSE k \in keys : TRUE
         IN DelAll(Del(ss, key), keys \ {key})

reset_handler(ss) == DelAll(ss, DOMAIN ss)

----------------------------------------------------------------------------
(* What one script run renders in the results tab.  elements lists, in     *)
(* order, what was drawn; stats_dict and chi_square hold the reports the   *)
(* metric cards show (empty when no card shows them); exception names the  *)
(* exception that ended the run, which Streamlit draws in place of the     *)
(* rest of the page.                                                       *)

Page(elements, exception, stats_dict, chi_square) ==
    [elements |-> elements, exception |-> exception,
     stats_dict |-> stats_dict, chi_square |-> chi_square]

ExceptionPage(drawn, e) == Page(drawn \o <<"exception">>, e, <<>>, <<>>)

EmptyStatePage == Page(<<"call_to_action">>, "none", <<>>, <<>>)

StatCards == <<"card_mean", "card_std", "card_range", "card_unique">>

AfterCards == <<"chart_frequency", "metric_deviation", "chart_cdf", "metric_chi",
                "download_txt", "download_csv", "preview">>

(* variant: the statistics cards drawn before chi_square_test is called *)
results_cards_first(ss, slider_qubits) ==
    LET head == <<"success", "dashboard_header">>
        stats == calculate_statistics(ss["random_numbers"], ss["num_qubits"])
        chi == chi_square_test(ss["random_numbers"], ss["num_qubits"])
    IN IF ~stats.ok THEN ExceptionPage(head, stats.error)
       ELSE IF ~chi.ok
       THEN Page(head \o StatCards \o <<"exception">>, chi.error, <<stats.value>>, <<>>)
       ELSE Page(head \o StatCards \o <<"card_chi">> \o AfterCards, "none",
                 <<stats.value>>, <<chi.value>>)

(* variant: the reports computed with the slider's num_qubits *)
results_slider_width(ss, slider_qubits) ==
    LET head == <<"success", "dashboard_header">>
        stats == calculate_statistics(ss["random_numbers"], slider_qubits)
        chi == chi_square_test(ss["random_numbers"], slider_qubits)
    IN IF ~stats.ok THEN ExceptionPage(head, stats.error)
       ELSE IF ~chi.ok THEN ExceptionPage(head, chi.error)
       ELSE Page(head \o StatCards \o <<"card_chi">> \o AfterCards, "none",
                 <<stats.value>>, <<chi.value>>)

(* lines 256-415: the three session entries are read (a missing one is a  *)
(* KeyError), then both reports are computed (268, 269), then the cards   *)
(* are drawn (272-319) and the charts and downloads after them             *)
results(ss, slider_qubits) ==
    IF {"num_qubits", "num_samples"} \ DOMAIN ss # {}
    THEN ExceptionPage(<<>>, "KeyError")
    ELSE
    LET random_numbers == ss["random_numbers"]
        num_qubits_used == ss["num_qubits"]
        num_samples_used == ss["num_samples"]
        head == <<"success", "dashboard_header">>
        stats == calculate_statistics(random_numbers, num_qubits_used)
        chi == chi_square_test(random_numbers, num_qubits_used)
    IN IF ~stats.ok THEN ExceptionPage(head, stats.error)
       ELSE IF ~chi.ok THEN ExceptionPage(head, chi.error)
       ELSE Page(head \o StatCards \o <<"card_chi">> \o AfterCards, "none",
                 <<stats.value>>, <<chi.value>>)

(* lines 248-426: the results tab of one script run.  An exception in     *)
(* generate_random_numbers leaves the run before line 252.                *)
tab1(ss, nq, ns, generate_button, backend) ==
    LET r == generate_random_numbers(nq, ns, backend)
        written == Put(Put(Put(ss, "random_numbers", r.value),
                           "num_qubits", nq), "num_samples", ns)
        now == IF generate_button THEN written ELSE ss
    IN IF generate_button /\ ~r.ok
       THEN [session_state |-> ss, page |-> ExceptionPage(<<>>, r.error)]
       ELSE [session_state |-> now,
             page |-> IF "random_numbers" \in DOMAIN now
                      THEN results(now, nq) ELSE EmptyStatePage]

----------------------------------------------------------------------------
(* Inputs *)

BinStrings(n) == [1..n -> {"0", "1"}]

(* keys that are no n-digit binary pattern: one digit too many (decoding  *)
(* to 2^n), one digit too few, and a character that is no binary digit    *)
BadKeys(n) ==
    { [i \in 1..(n + 1) |-> IF i = 1 THEN "1" ELSE "0"],
      [i \in 1..(n - 1) |-> "1"],
      [i \in 1..n |-> IF i = n THEN "2" ELSE "0"] }

DistinctKeys(cs) == \A i, j \in 1..Len(cs) : cs[i][1] = cs[j][1] => i = j

(* frequency maps as any backend could hand them over, well formed or not *)
FrequencyMaps(n) ==
    LET entries == (BinStrings(n) \cup BadKeys(n)) \X (-1..MaxCount)
    IN {cs \in UNION {[1..k -> entries] : k \in 0..MaxEntries} : DistinctKeys(cs)}

(* sample lists, with the out-of-range value 2^n among the elements *)
SampleLists(n) == UNION {[1..k -> 0..Pow2(n)] : k \in 0..MaxLen}

QubitOptions == 1..MaxQubits

SampleSizes == 1..MaxSamples

(* get_counts() of a run of s shots on n qubits: the patterns that were   *)
(* measured, each with its positive count, the counts summing to s.  The  *)
(* dashboard is run on the maps that list their patterns in ascending     *)
(* order; the expansion loop is run on every order under SpecFn.          *)
RECURSIVE CountsSummingTo(_, _, _)
CountsSummingTo(n, s, above) ==
    IF s = 0 THEN {<<>>}
    ELSE UNION { { <<e>> \o rest :
                     rest \in CountsSummingTo(n, s - e[2], int_base2(e[1]).value) }
                 : e \in {k \in BinStrings(n) : int_base2(k).value > above} \X (1..s) }

AerCounts == [n \in QubitOptions, s \in SampleSizes |-> CountsSummingTo(n, s, -1)]

(* lines 38-45: the simulator returns counts or raises *)
BackendOutcomes(n, s) ==
    {Raise("AerError")} \cup {Return(cs) : cs \in AerCounts[n, s]}

NoCall == [fn |-> "none", call |-> Return(<<>>)]

CsvValues == {0, Pow2(MaxQubitOption) - 1}

----------------------------------------------------------------------------
(* The dashboard: one action per script run.  Streamlit runs the script   *)
(* top to bottom on every interaction; a widget without a key keeps its   *)
(* value across runs and across Reset.                                    *)

Init ==
    /\ num_qubits \in QubitOptions
    /\ num_samples \in SampleSizes
    /\ session_state = NoSession
    /\ page = EmptyStatePage
    /\ counts = <<>>
    /\ data = <<>>
    /\ ret = NoCall

Rerun(nq, ns) ==
    LET run == tab1(session_state, nq, ns, FALSE, Raise("not called"))
    IN /\ num_qubits' = nq
       /\ num_samples' = ns
       /\ session_state' = run.session_state
       /\ page' = run.page
       /\ ret' = NoCall
       /\ UNCHANGED <<counts, data>>

SetQubits == \E q \in QubitOptions \ {num_qubits} : Rerun(q, num_samples)

SetSamples == \E s \in SampleSizes \ {num_samples} : Rerun(num_qubits, s)

Generate ==
    \E backend \in BackendOutcomes(num_qubits, num_samples) :
        LET run == tab1(session_state, num_qubits, num_samples, TRUE, backend)
        IN /\ session_state' = run.session_state
           /\ page' = run.page
           /\ ret' = IF backend.ok THEN NoCall ELSE [fn |-> "backend", call |-> backend]
           /\ UNCHANGED <<num_qubits, num_samples, counts, data>>

(* lines 191-194: the keys are deleted and st.rerun() runs the script     *)
(* again, with no button pressed                                          *)
Reset ==
    LET run == tab1(reset_handler(session_state), num_qubits, num_samples,
                    FALSE, Raise("not called"))
    IN /\ session_state' = run.session_state
       /\ page' = run.page
       /\ ret' = NoCall
       /\ UNCHANGED <<num_qubits, num_samples, counts, data>>

Next == SetQubits \/ SetSamples \/ Generate \/ Reset

Spec == Init /\ [][Next]_vars

----------------------------------------------------------------------------
(* The functions on their own: an input is drawn, one function is called  *)

Stored(xs, nq) ==
    Put(Put(Put(NoSession, "random_numbers", xs), "num_qubits", nq),
        "num_samples", Len(xs))

InitFn ==
    /\ num_qubits \in 1..MaxBits
    /\ num_samples = 0
    /\ session_state = NoSession
    /\ page = EmptyStatePage
    /\ ret = NoCall
    /\ \/ counts \in FrequencyMaps(num_qubits) /\ data = <<>>
       \/ counts = <<>> /\ data \in SampleLists(num_qubits)

CallExpand ==
    /\ ret.fn = "none"
    /\ data = <<>>
    /\ ret' = [fn |-> "expand", call |-> expand(counts)]
    /\ UNCHANGED <<num_qubits, num_samples, session_state, page, counts, data>>

CallStatistics ==
    /\ ret.fn = "none"
    /\ counts = <<>>
    /\ ret' = [fn |-> "calculate_statistics",
               call |-> calculate_statistics(data, num_qubits)]
    /\ UNCHANGED <<num_qubits, num_samples, session_state, page, counts, data>>

CallChiSquare ==
    /\ ret.fn = "none"
    /\ counts = <<>>
    /\ ret' = [fn |-> "chi_square_test", call |-> chi_square_test(data, num_qubits)]
    /\ UNCHANGED <<num_qubits, num_samples, session_state, page, counts, data>>

RenderStored ==
    /\ ret.fn = "none"
    /\ counts = <<>>
    /\ session_state' = Stored(data, num_qubits)
    /\ page' = tab1(session_state', num_qubits, num_samples, FALSE,
                    Raise("not called")).page
    /\ ret' = [fn |-> "render", call |-> Return(<<>>)]
    /\ UNCHANGED <<num_qubits, num_samples, counts, data>>

NextFn == CallExpand \/ CallStatistics \/ CallChiSquare \/ RenderStored

SpecFn == InitFn /\ [][NextFn]_vars

----------------------------------------------------------------------------
(* The CSV export on its own: a list is built, then exported *)

InitCsv ==
    /\ num_qubits = MaxQubitOption
    /\ num_samples = 0
    /\ session_state = NoSession
    /\ page = EmptyStatePage
    /\ ret = NoCall
    /\ counts = <<>>
    /\ data = <<>>

AppendSample ==
    /\ ret.fn = "none"
    /\ Len(data) < MaxCsvLen
    /\ \E v \in CsvValues : data' = Append(data, v)
    /\ UNCHANGED <<num_qubits, num_samples, session_state, page, counts, ret>>

ExportCsv ==
    /\ ret.fn = "none"
    /\ ret' = [fn |-> "csv_data", call |-> Return(csv_data(data))]
    /\ UNCHANGED <<num_qubits, num_samples, session_state, page, counts, data>>

NextCsv == AppendSample \/ ExportCsv

SpecCsv == InitCsv /\ [][NextCsv]_vars

----------------------------------------------------------------------------
(* Vocabulary of the properties, defined apart from the operators above *)

(* cs is a frequency map of n-digit binary patterns with counts >= 0 *)
BinaryKeys(cs, n) == \A i \in 1..Len(cs) : cs[i][1] \in BinStrings(n)

WellFormed(cs, n) == BinaryKeys(cs, n) /\ \A i \in 1..Len(cs) : cs[i][2] >= 0

(* the number a binary pattern denotes: the sum of its digits' weights *)
RECURSIVE WeightSum(_, _)
WeightSum(k, i) ==
    IF i > Len(k) THEN 0
    ELSE (IF k[i] = "1" THEN Pow2(Len(k) - i) ELSE 0) + WeightSum(k, i + 1)

BinaryValue(k) == WeightSum(k, 1)

RECURSIVE TotalCount(_, _)
TotalCount(cs, i) == IF i > Len(cs) THEN 0 ELSE cs[i][2] + TotalCount(cs, i + 1)

Occurrences(xs, v) == Cardinality({i \in 1..Len(xs) : xs[i] = v})

RECURSIVE SumOver(_, _, _)
SumOver(f, lo, hi) == IF lo > hi THEN 0 ELSE f[lo] + SumOver(f, lo + 1, hi)

InRange(xs, n) == \A i \in 1..Len(xs) : xs[i] \in 0..(Pow2(n) - 1)

(* a reader of the CSV text: lines as str.splitlines() cuts them, fields  *)
(* cut at the comma, numbers read digit by digit                          *)
RECURSIVE SplitFrom(_, _, _, _, _)
SplitFrom(text, sep, i, cur, acc) ==
    IF i > Len(text) THEN Append(acc, cur)
    ELSE IF text[i] = sep THEN SplitFrom(text, sep, i + 1, <<>>, Append(acc, cur))
    ELSE SplitFrom(text, sep, i + 1, Append(cur, text[i]), acc)

SplitLines(text) ==
    LET parts == SplitFrom(text, "\n", 1, <<>>, <<>>)
    IN IF parts[Len(parts)] = <<>> THEN SubSeq(parts, 1, Len(parts) - 1) ELSE parts

Digits == <<"0", "1", "2", "3", "4", "5", "6", "7", "8", "9">>

RECURSIVE ReadNat(_, _, _)
ReadNat(chars, i, v) ==
    IF i > Len(chars) THEN v
    ELSE IF \E d \in 1..Len(Digits) : Digits[d] = chars[i]
    THEN ReadNat(chars, i + 1,
                 10 * v + (CHOOSE d \in 1..Len(Digits) : Digits[d] = chars[i]) - 1)
    ELSE -1

ParseNat(chars) == IF chars = <<>> THEN -1 ELSE ReadNat(chars, 1, 0)

ParseRow(line) ==
    LET fields == SplitFrom(line, ",", 1, <<>>, <<>>)
    IN IF Len(fields) # 2 THEN <<-1, -1>>
       ELSE <<ParseNat(fields[1]), ParseNat(fields[2])>>

SessionKeys == {"random_numbers", "num_qubits", "num_samples"}

ShowsStatistics(pg) ==
    \/ pg.stats_dict # <<>>
    \/ \E i \in 1..Len(pg.elements), j \in 1..Len(StatCards) : pg.elements[i] = StatCards[j]

ShowsChiSquare(pg) ==
    \/ pg.chi_square # <<>>
    \/ \E i \in 1..Len(pg.elements) : pg.elements[i] \in {"card_chi", "metric_chi"}

----------------------------------------------------------------------------
(* Properties *)

(* C1: for a frequency map of n-digit binary patterns with non-negative   *)
(* counts summing to s, the expansion returns a list of length s that     *)
(* holds exactly count copies of the value of each pattern, and nothing   *)
(* else.                                                                  *)
C1_ExpansionExact ==
    (ret.fn = "expand" /\ WellFormed(counts, num_qubits)) =>
        /\ ret.call.ok
        /\ Len(ret.call.value) = TotalCount(counts, 1)
        /\ \A i \in 1..Len(counts) :
              Occurrences(ret.call.value, BinaryValue(counts[i][1])) = counts[i][2]
        /\ \A j \in 1..Len(ret.call.value) :
              \E i \in 1..Len(counts) : ret.call.value[j] = BinaryValue(counts[i][1])

C1_Witness ==
    /\ ret.fn = "expand"
    /\ WellFormed(counts, num_qubits)
    /\ Len(counts) = MaxEntries
    /\ \E i, j \in 1..Len(counts) : counts[i][2] = 0 /\ counts[j][2] > 1
    /\ Len(ret.call.value) > 1

(* C2: when every key is a binary pattern of exactly n digits, every      *)
(* value of the returned list lies in 0 .. 2^n - 1.                       *)
C2_ExpansionInRange ==
    (ret.fn = "expand" /\ BinaryKeys(counts, num_qubits)) =>
        /\ ret.call.ok
        /\ InRange(ret.call.value, num_qubits)

C2_Witness ==
    /\ ret.fn = "expand"
    /\ BinaryKeys(counts, num_qubits)
    /\ num_qubits > 1
    /\ \E j \in 1..Len(ret.call.value) : ret.call.value[j] = Pow2(num_qubits) - 1

(* C3: for a non-empty list of N values in 0 .. K-1, K = 2^n, the          *)
(* statistic x returned by chi_square_test satisfies                      *)
(* N * K * x = sum over all K bins of (K * O_i - N)^2, bins with O_i = 0  *)
(* included; when all bins hold the same count, x is 0 and p_value is 1.  *)
C3_ChiSquareStatistic ==
    (ret.fn = "chi_square_test" /\ data # <<>> /\ InRange(data, num_qubits)) =>
        LET K == Pow2(num_qubits)
            N == Len(data)
            O == [b \in 0..(K - 1) |-> Occurrences(data, b)]
            sq == [b \in 0..(K - 1) |-> (K * O[b] - N) * (K * O[b] - N)]
        IN /\ ret.call.ok
           /\ ret.call.value[1].kind = "num"
           /\ ret.call.value[1].den > 0
           /\ ret.call.value[1].num * (N * K) = ret.call.value[1].den * SumOver(sq, 0, K - 1)
           /\ (\A b \in 0..(K - 1) : O[b] = O[0]) =>
                 /\ ret.call.value[1] = Int2F(0)
                 /\ ret.call.value[2] = Int2F(1)

C3_Witness ==
    /\ ret.fn = "chi_square_test"
    /\ num_qubits > 1
    /\ data # <<>>
    /\ \A b \in 0..(Pow2(num_qubits) - 1) : Occurrences(data, b) = 1
    /\ ret.call.ok
    /\ ret.call.value[1] = Int2F(0)

(* C4: calculate_statistics on an empty list fails, and the emptiness is  *)
(* found before np.mean, np.std, np.min or np.max is invoked.             *)
C4_EmptyCheckedFirst ==
    (ret.fn = "calculate_statistics" /\ data = <<>>) =>
        /\ ~ret.call.ok
        /\ ret.call.trace = <<>>

(* C5: chi_square_test on an empty list fails before any per-bin term is  *)
(* computed: no division by a zero expected frequency, no pair returned.  *)
C5_EmptyTestFails ==
    (ret.fn = "chi_square_test" /\ data = <<>>) =>
        /\ ~ret.call.ok
        /\ ret.call.trace = <<>>

(* C6: the expansion fails, returning no list, whenever a key is not a    *)
(* binary pattern of exactly n digits or a count is negative.             *)
C6_MalformedRejected ==
    (ret.fn = "expand" /\ ~WellFormed(counts, num_qubits)) => ~ret.call.ok

(* C7: a rendering of a stored sample list shows the statistics report    *)
(* and the chi-square result together or shows neither.                   *)
C7_NoPartialResult ==
    ShowsStatistics(page) <=> ShowsChiSquare(page)

C7_Witness ==
    /\ ret.fn = "render"
    /\ data # <<>>
    /\ calculate_statistics(data, num_qubits).ok
    /\ page.exception = "ValueError"
    /\ ~ShowsStatistics(page)
    /\ ~ShowsChiSquare(page)

(* C8: in a script run whose backend call raises, the exception ends the  *)
(* run as it is (the page shows it, and no results), and the session      *)
(* entries are left as they were.                                         *)
C8_BackendFailurePropagates ==
    [][(ret'.fn = "backend" /\ ~ret'.call.ok) =>
          /\ session_state' = session_state
          /\ page'.exception = ret'.call.error
          /\ ~ShowsStatistics(page')
          /\ ~ShowsChiSquare(page')]_vars

C8_Witness ==
    /\ ret.fn = "backend"
    /\ ~ret.call.ok
    /\ page.exception = "AerError"
    /\ DOMAIN session_state = SessionKeys
    /\ session_state["num_samples"] # num_samples

(* C9: the CSV text is the header row index,value followed by one row     *)
(* i,value_i per element, i counting from 0 in list order: reading the    *)
(* rows back gives the list; for the empty list only the header is there. *)
C9_CsvRoundTrip ==
    (ret.fn = "csv_data") =>
        LET lines == SplitLines(ret.call.value)
        IN /\ Len(lines) = Len(data) + 1
           /\ lines[1] = CsvHeader
           /\ \A i \in 1..Len(data) : ParseRow(lines[i + 1]) = <<i - 1, data[i]>>

C9_Witness ==
    /\ ret.fn = "csv_data"
    /\ Len(data) > 10
    /\ data[1] = 0
    /\ data[Len(data)] > 9

(* C10: the session holds none or all three of random_numbers,            *)
(* num_qubits, num_samples; when it holds them, the list has num_samples  *)
(* elements, each in 0 .. 2^num_qubits - 1 for the stored num_qubits, and *)
(* the reports on the page were computed with the stored num_qubits, not  *)
(* with the slider.                                                       *)
C10_SessionConsistent ==
    /\ DOMAIN session_state \in {{}, SessionKeys}
    /\ (DOMAIN session_state = {}) => ~ShowsStatistics(page) /\ ~ShowsChiSquare(page)
    /\ (DOMAIN session_state = SessionKeys) =>
          /\ Len(session_state["random_numbers"]) = session_state["num_samples"]
          /\ InRange(session_state["random_numbers"], session_state["num_qubits"])
          /\ page.exception = "none" =>
                /\ Len(page.stats_dict) = 1
                /\ page.stats_dict[1].theoretical_mean.num
                      = Pow2(session_state["num_qubits"]) - 1
                /\ page.stats_dict[1].theoretical_mean.den = 2
                /\ page.stats_dict[1].total_samples = session_state["num_samples"]
                /\ page.stats_dict[1].max < Pow2(session_state["num_qubits"])
                /\ Len(page.chi_square) = 1

C10_Witness ==
    /\ DOMAIN session_state = SessionKeys
    /\ session_state["num_qubits"] # num_qubits
    /\ session_state["num_samples"] # num_samples
    /\ page.exception = "none"
    /\ Len(page.stats_dict) = 1

====
